---------------------------- MODULE Spec2Model ----------------------------
(***************************************************************************)
(* Supbot2: the state reconciler (change_state), the new-chat checker      *)
(* (check_for_new_chat), the action dispatcher (execute_action) of         *)
(* supbot/service_manager.py and the controller (System) of                *)
(* supbot/system.py, with the looper thread that ties them together.       *)
(***************************************************************************)
EXTENDS Integers, Sequences, FiniteSets, TLC

VARIABLES
    status,         \* System.status: 0 stopped, 1 starting, 2 running
    action_buffer,  \* System._action_buffer: a list of Action, appended to, popped from the end
    looper,         \* position of the looper thread
    gui_state,      \* the looper's believed GUIState
    action,         \* the Action popped by the running execute_action, None outside it
    app,            \* position of the embedding application's thread
    callback,       \* Supbot.events[MESSAGE_RECEIVED]: TRUE when a callback is registered
    nenq,           \* number of actions enqueued so far; the next action gets id nenq + 1
    ran,            \* the actions handed to a handler, in order
    dropped,        \* the actions dropped for an invalid payload, in order
    at_quit,        \* ids of the actions in the buffer when quit() last ran
    last,           \* what the last finished execute_action / check_for_new_chat did
    actions,        \* supbot.action.actions: the registry, action name -> meta
    stopping,       \* TRUE once quit() has run after start()
    rc              \* a change_state call on its own: inputs and result

vars == <<status, action_buffer, looper, gui_state, action, app, callback,
          nenq, ran, dropped, at_quit, last, actions, stopping, rc>>

---------------------------------------------------------------------------
(* Values *)

None == <<>>

\* chat identifiers are strings, modelled as tuples of characters
Bob == <<"b", "o", "b">>

Phone11 == <<"1", "2", "3", "4", "5", "6", "7", "8", "9", "0", "1">>

Temp == <<"!", "t", "e", "m", "p">>

Chats == {Bob, Phone11}

Digits == {"0", "1", "2", "3", "4", "5", "6", "7", "8", "9"}

MAIN == "MAIN"

CHAT == "CHAT"

\* GUIState(state, info): info defaults to None
GUIState(state, info) == [state |-> state, info |-> info]

Main == GUIState(MAIN, None)

Chat(x) == GUIState(CHAT, x)

GUIStates == {Main} \cup {Chat(x) : x \in Chats}

---------------------------------------------------------------------------
(* The gesture driver: every call is recorded; the answers of the calls    *)
(* that return a bool are the driver's, one per call site of change_state. *)

Sites == {"click_on_chat_93", "search_chat_96", "click_on_chat_97",
          "search_chat_106", "click_on_chat_106", "type_and_send_107",
          "click_on_last_chat_link_107", "click_ok_108"}

Answers == [Sites -> BOOLEAN]

press_back == <<"press_back">>

click_on_chat(x) == <<"click_on_chat", x>>

search_chat(x) == <<"search_chat", x>>

type_and_send(t) == <<"type_and_send", t>>

click_on_last_chat_link == <<"click_on_last_chat_link">>

click_ok == <<"click_ok">>

\* f"wa.me/{_to.info}"
wa_me(x) == <<"w", "a", ".", "m", "e", "/">> \o x

\* re.search("\d{11,13}", s): s holds eleven digits in a row somewhere
re_search_phone(s) ==
    \E i \in 1..Len(s) :
        /\ i + 10 <= Len(s)
        /\ \A j \in i..(i + 10) : s[j] \in Digits

\* what a change_state call returns and did: (code, state), the driver calls,
\* the log levels, and how many calls of change_state it made in turn (line 124)
Ret(code, state, calls, log) ==
    [code |-> code, state |-> state, calls |-> calls, log |-> log, rec |-> 0]


---------------------------------------------------------------------------
(* change_state, service_manager.py:73-128 *)

\* mutant: line 108 reads `if driver.click_ok()`, a dismissed dialog succeeds
deep_link_ok_inverted(_from, _to, ans, calls, log) ==
    IF re_search_phone(_to.info)
    THEN LET c1 == calls \o <<search_chat(Temp)>>
             c2 == c1 \o <<click_on_chat(Temp)>>
             c3 == c2 \o <<type_and_send(wa_me(_to.info))>>
             c4 == c3 \o <<click_on_last_chat_link>>
             c5 == c4 \o <<click_ok>>
         IN  IF ~ans["search_chat_106"]
             THEN Ret(1, _from, c1, log \o <<"debug">>)
             ELSE IF ~ans["click_on_chat_106"]
             THEN Ret(1, _from, c2, log \o <<"debug">>)
             ELSE IF ~ans["type_and_send_107"]
             THEN Ret(1, _from, c3 \o <<press_back>>, log \o <<"warning">>)
             ELSE IF ~ans["click_on_last_chat_link_107"]
             THEN Ret(1, _from, c4 \o <<press_back>>, log \o <<"warning">>)
             ELSE IF ans["click_ok_108"]
             THEN Ret(0, _to, c5, log)
             ELSE Ret(1, _from, c5, log \o <<"debug">>)
    ELSE Ret(1, _from, calls, log \o <<"debug">>)

\* lines 104-119: the fallback through the `!temp` chat and a wa.me link,
\* entered after the two press_back of lines 101-102; falls through to line 128
deep_link(_from, _to, ans, calls, log) ==
    IF re_search_phone(_to.info)
    THEN LET c1 == calls \o <<search_chat(Temp)>>
             c2 == c1 \o <<click_on_chat(Temp)>>
             c3 == c2 \o <<type_and_send(wa_me(_to.info))>>
             c4 == c3 \o <<click_on_last_chat_link>>
             c5 == c4 \o <<click_ok>>
         IN  IF ~ans["search_chat_106"]
             THEN Ret(1, _from, c1, log \o <<"debug">>)
             ELSE IF ~ans["click_on_chat_106"]
             THEN Ret(1, _from, c2, log \o <<"debug">>)
             ELSE IF ~ans["type_and_send_107"]
             THEN Ret(1, _from, c3 \o <<press_back>>, log \o <<"warning">>)
             ELSE IF ~ans["click_on_last_chat_link_107"]
             THEN Ret(1, _from, c4 \o <<press_back>>, log \o <<"warning">>)
             ELSE IF ~ans["click_ok_108"]
             THEN Ret(0, _to, c5, log)
             ELSE Ret(1, _from, c5, log \o <<"debug">>)
    ELSE Ret(1, _from, calls, log \o <<"debug">>)

\* mutant: line 128 returns the target state on a failure
main_to_chat_advances(_from, _to, ans) ==
    LET c1 == <<click_on_chat(_to.info)>>
        c2 == c1 \o <<search_chat(_to.info)>>
        c3 == c2 \o <<click_on_chat(_to.info)>>
        d  == deep_link(_from, _to, ans, c3 \o <<press_back, press_back>>,
                        <<"debug", "debug">>)
    IN  IF ans["click_on_chat_93"]
        THEN Ret(0, _to, c1, <<>>)
        ELSE IF ans["search_chat_96"]
        THEN IF ans["click_on_chat_97"]
             THEN Ret(0, _to, c3, <<"debug">>)
             ELSE Ret(d.code, _to, d.calls, d.log)
        ELSE Ret(1, _to, c2, <<"debug">>)

\* lines 93-119: from the main screen into the chat _to.info
main_to_chat(_from, _to, ans) ==
    LET c1 == <<click_on_chat(_to.info)>>
        c2 == c1 \o <<search_chat(_to.info)>>
        c3 == c2 \o <<click_on_chat(_to.info)>>
    IN  IF ans["click_on_chat_93"]
        THEN Ret(0, _to, c1, <<>>)
        ELSE IF ans["search_chat_96"]
        THEN IF ans["click_on_chat_97"]
             THEN Ret(0, _to, c3, <<"debug">>)
             ELSE deep_link(_from, _to, ans, c3 \o <<press_back, press_back>>,
                            <<"debug", "debug">>)
        ELSE Ret(1, _from, c2, <<"debug">>)

\* mutant: line 123 is missing, no press_back before the retry from Main
change_state_no_back(_from, _to, ans) ==
    IF _to.state = MAIN
    THEN IF _from.state = CHAT
         THEN Ret(0, _to, <<press_back>>, <<>>)
         ELSE Ret(1, _from, <<>>, <<>>)
    ELSE IF _from.state = MAIN
    THEN main_to_chat(_from, _to, ans)
    ELSE IF _from.info # _to.info
    THEN main_to_chat(GUIState(MAIN, None), _to, ans)
    ELSE Ret(0, _to, <<>>, <<>>)

\* mutant: line 122 is missing, the same chat is left and entered again
change_state_always_back(_from, _to, ans) ==
    IF _to.state = MAIN
    THEN IF _from.state = CHAT
         THEN Ret(0, _to, <<press_back>>, <<>>)
         ELSE Ret(1, _from, <<>>, <<>>)
    ELSE IF _from.state = MAIN
    THEN main_to_chat(_from, _to, ans)
    ELSE LET r == main_to_chat(GUIState(MAIN, None), _to, ans)
         IN  Ret(r.code, r.state, <<press_back>> \o r.calls, r.log)

\* mutant: line 88 returns _from
change_state_stays(_from, _to, ans) ==
    IF _to.state = MAIN
    THEN IF _from.state = CHAT
         THEN Ret(0, _from, <<press_back>>, <<>>)
         ELSE Ret(1, _from, <<>>, <<>>)
    ELSE IF _from.state = MAIN
    THEN main_to_chat(_from, _to, ans)
    ELSE IF _from.info # _to.info
    THEN LET r == main_to_chat(GUIState(MAIN, None), _to, ans)
         IN  Ret(r.code, r.state, <<press_back>> \o r.calls, r.log)
    ELSE Ret(0, _to, <<>>, <<>>)

\* mutant: line 124 calls change_state from Main again when the call failed
change_state_retries(_from, _to, ans) ==
    IF _to.state = MAIN
    THEN IF _from.state = CHAT
         THEN Ret(0, _to, <<press_back>>, <<>>)
         ELSE Ret(1, _from, <<>>, <<>>)
    ELSE IF _from.state = MAIN
    THEN main_to_chat(_from, _to, ans)
    ELSE IF _from.info # _to.info
    THEN LET r == main_to_chat(GUIState(MAIN, None), _to, ans)
         IN  IF r.code = 0
             THEN [Ret(r.code, r.state, <<press_back>> \o r.calls, r.log)
                      EXCEPT !.rec = 1]
             ELSE [Ret(r.code, r.state, <<press_back>> \o r.calls \o r.calls,
                       r.log \o r.log)
                      EXCEPT !.rec = 2]
    ELSE Ret(0, _to, <<>>, <<>>)

RECURSIVE change_state(_, _, _)

change_state(_from, _to, ans) ==
    IF _to.state = MAIN
    THEN IF _from.state = CHAT
         THEN Ret(0, _to, <<press_back>>, <<>>)
         ELSE Ret(1, _from, <<>>, <<>>)
    ELSE IF _to.state = CHAT
    THEN IF _from.state = MAIN
         THEN main_to_chat(_from, _to, ans)
         ELSE IF _from.state = CHAT
         THEN IF _from.info # _to.info
              THEN LET r == change_state(GUIState(MAIN, None), _to, ans)
                   IN  [Ret(r.code, r.state, <<press_back>> \o r.calls, r.log)
                           EXCEPT !.rec = r.rec + 1]
              ELSE Ret(0, _to, <<>>, <<>>)
         ELSE Ret(1, _from, <<>>, <<>>)
    ELSE Ret(1, _from, <<>>, <<>>)

---------------------------------------------------------------------------
(* Bounds *)

\* at most this many actions are ever enqueued
MaxActions == 3

\* at most this many new messages are read from one chat
MaxMessages == 2

---------------------------------------------------------------------------
(* Actions and the registry (supbot/action.py, supbot/model.py) *)

ActionName == {"k1"}

\* payload shapes: the runtime types of the elements of action.data
Payloads == {<<"str", "str">>, <<"str">>}

\* the registry with every action name registered
all_actions ==
    [n \in ActionName |-> [data_type |-> <<"str", "str">>]]

\* check_type(argname, value, expected_type): TRUE when no TypeError is raised
check_type(data, data_type) == data = data_type

\* Action(name, data), with the order of its enqueue as its identity
Action(id, name, data) == [id |-> id, name |-> name, data |-> data]

Messages == {"m1", "m2"}

MessageLists == UNION {[1..n -> Messages] : n \in 0..MaxMessages}

ids(buf) == {buf[i].id : i \in 1..Len(buf)}

---------------------------------------------------------------------------
(* System, system.py *)

\* mutant: the comparison of line 120 is inverted
is_on_inverted == status < 1

\* System.is_on, system.py:115-120
is_on == status > 0

\* System.has_started, system.py:122-127
has_started == status > 1

\* System.call_event, system.py:105-113: the callback invocations it makes;
\* cb is Supbot.events[event], FALSE for None
call_event(event, params, cb) ==
    IF cb THEN <<[event |-> event, params |-> params]>> ELSE <<>>

---------------------------------------------------------------------------
(* check_for_new_chat, service_manager.py:23-42 *)

get_new_chat == <<"get_new_chat">>

get_new_messages == <<"get_new_messages">>

\* mutant: the messages are gone through from the last to the first
RECURSIVE call_events_reversed(_, _, _)

call_events_reversed(name, messages, cb) ==
    IF messages = <<>>
    THEN <<>>
    ELSE call_events_reversed(name, Tail(messages), cb)
         \o call_event("MESSAGE_RECEIVED", <<name, Head(messages)>>, cb)

\* lines 40-41: one call_event per message, in the order of the list
RECURSIVE call_events(_, _, _)

call_events(name, messages, cb) ==
    IF messages = <<>>
    THEN <<>>
    ELSE call_event("MESSAGE_RECEIVED", <<name, Head(messages)>>, cb)
         \o call_events(name, Tail(messages), cb)

\* lines 40-41: the call_event calls made, (event, params) each
event_calls(name, messages) ==
    [i \in 1..Len(messages) |->
        [event |-> "MESSAGE_RECEIVED", params |-> <<name, messages[i]>>]]

\* mutant: line 34 does not keep the state change_state returns
check_for_new_chat_stays(current, chat, messages, ans, cb) ==
    LET r1 == change_state(current, GUIState(MAIN, None), ans)
    IN  IF chat # None
        THEN LET r2 == change_state(current, GUIState(CHAT, chat), ans)
             IN  [op |-> "poll", before |-> current, chat |-> chat,
                  messages |-> messages, code |-> r2.code, state |-> r2.state,
                  calls |-> r1.calls \o <<get_new_chat>> \o r2.calls
                            \o <<get_new_messages>>,
                  emits |-> event_calls(chat, messages),
                  events |-> call_events(chat, messages, cb)]
        ELSE [op |-> "poll", before |-> current, chat |-> None,
              messages |-> <<>>, code |-> r1.code, state |-> current,
              calls |-> r1.calls \o <<get_new_chat>>,
              emits |-> <<>>,
              events |-> <<>>]

\* chat is what driver.get_new_chat() returns (None or a chat name), messages
\* what driver.get_new_messages() returns, ans the driver's other answers
check_for_new_chat(current, chat, messages, ans, cb) ==
    LET r1 == change_state(current, GUIState(MAIN, None), ans)
    IN  IF chat # None
        THEN LET r2 == change_state(r1.state, GUIState(CHAT, chat), ans)
             IN  [op |-> "poll", before |-> current, chat |-> chat,
                  messages |-> messages, code |-> r2.code, state |-> r2.state,
                  calls |-> r1.calls \o <<get_new_chat>> \o r2.calls
                            \o <<get_new_messages>>,
                  emits |-> event_calls(chat, messages),
                  events |-> call_events(chat, messages, cb)]
        ELSE [op |-> "poll", before |-> current, chat |-> None,
              messages |-> <<>>, code |-> r1.code, state |-> r1.state,
              calls |-> r1.calls \o <<get_new_chat>>,
              emits |-> <<>>,
              events |-> <<>>]

\* every way one check_for_new_chat call can go, over the driver's answers
poll_outcomes ==
    [current \in GUIStates, cb \in BOOLEAN |->
        {check_for_new_chat(current, chat, messages, ans, cb) :
            chat \in Chats \cup {None}, messages \in MessageLists, ans \in Answers}]

---------------------------------------------------------------------------
(* The state machine *)

rc_idle == [pc |-> "idle"]

no_op == [op |-> "none"]

\* System.__init__, system.py:59-64; the registry holds every action name
Init ==
    /\ status = 1
    /\ action_buffer = <<>>
    /\ looper = "unstarted"
    /\ gui_state = Main
    /\ action = None
    /\ app = "run"
    /\ callback \in BOOLEAN
    /\ nenq = 0
    /\ ran = <<>>
    /\ dropped = <<>>
    /\ at_quit = {}
    /\ last = no_op
    /\ actions = all_actions
    /\ stopping = FALSE
    /\ rc = rc_idle

\* System.start, system.py:84-89
start ==
    /\ app = "run"
    /\ looper = "unstarted"
    /\ looper' = "init"
    /\ UNCHANGED <<status, action_buffer, gui_state, action, app, callback,
                   nenq, ran, dropped, at_quit, last, actions, stopping, rc>>

\* enqueue: Supbot appends an Action to System.action_buffer (system.py:74-82);
\* list.append is one atomic step
enqueue ==
    /\ nenq < MaxActions
    /\ \E name \in ActionName, data \in Payloads :
          action_buffer' = Append(action_buffer, Action(nenq + 1, name, data))
    /\ nenq' = nenq + 1
    /\ UNCHANGED <<status, looper, gui_state, action, app, callback,
                   ran, dropped, at_quit, last, actions, stopping, rc>>

\* mutant: quit() also empties the action buffer
quit_discards ==
    /\ status' = 0
    /\ stopping' = (stopping \/ looper # "unstarted")
    /\ action_buffer' = <<>>
    /\ at_quit' = IF looper \in {"exited", "fatal"}
                  THEN at_quit
                  ELSE at_quit \cup ids(action_buffer)
    /\ UNCHANGED <<looper, gui_state, action, app, callback,
                   nenq, ran, dropped, last, actions, rc>>

\* System.quit, system.py:98-103; at_quit remembers what was pending when a
\* quit() reached a looper that had not finished
quit ==
    /\ status' = 0
    /\ stopping' = (stopping \/ looper # "unstarted")
    /\ at_quit' = IF looper \in {"exited", "fatal"}
                  THEN at_quit
                  ELSE at_quit \cup ids(action_buffer)
    /\ UNCHANGED <<action_buffer, looper, gui_state, action, app, callback,
                   nenq, ran, dropped, last, actions, rc>>

\* System.wait_for_finish, system.py:91-96: the call of join()
wait_for_finish_call ==
    /\ app = "run"
    /\ looper # "unstarted"
    /\ app' = "waiting"
    /\ UNCHANGED <<status, action_buffer, looper, gui_state, action, callback,
                   nenq, ran, dropped, at_quit, last, actions, stopping, rc>>

\* System.wait_for_finish, system.py:96: join() returns once the thread is over
wait_for_finish_return ==
    /\ app = "waiting"
    /\ looper \in {"exited", "fatal"}
    /\ app' = "finished"
    /\ UNCHANGED <<status, action_buffer, looper, gui_state, action, callback,
                   nenq, ran, dropped, at_quit, last, actions, stopping, rc>>

\* looper.start: the thread sets up, starts from the main screen and
\* promotes the status to running
looper_init ==
    /\ looper = "init"
    /\ gui_state' = Main
    /\ status' = 2
    /\ looper' = "check"
    /\ UNCHANGED <<action_buffer, action, app, callback,
                   nenq, ran, dropped, at_quit, last, actions, stopping, rc>>

\* looper.start: while the system is on or actions are left
looper_check ==
    /\ looper = "check"
    /\ looper' = IF is_on \/ Len(action_buffer) > 0 THEN "poll" ELSE "exited"
    /\ UNCHANGED <<status, action_buffer, gui_state, action, app, callback,
                   nenq, ran, dropped, at_quit, last, actions, stopping, rc>>

\* what a check_for_new_chat call did, in short: emits counts its call_event
\* calls, emitted the callbacks these invoke, returned those that have returned
Polled(o) ==
    [op |-> "poll", before |-> o.before, chat |-> o.chat, code |-> o.code,
     state |-> o.state, emits |-> Len(o.emits), emitted |-> Len(o.events),
     returned |-> 0]

polled ==
    [current \in GUIStates, cb \in BOOLEAN |->
        {Polled(o) : o \in poll_outcomes[current, cb]}]

\* mutant: the callbacks are started and not waited for
looper_poll_async ==
    /\ looper = "poll"
    /\ \E p \in polled[gui_state, callback] :
          /\ last' = p
          /\ looper' = "pop"
          /\ gui_state' = p.state
    /\ UNCHANGED <<status, action_buffer, action, app, callback,
                   nenq, ran, dropped, at_quit, actions, stopping, rc>>

\* looper.start: gui_state = check_for_new_chat(system, driver, gui_state),
\* up to the first callback that call_event invokes (system.py:113), or to
\* its return when there is none
looper_poll ==
    /\ looper = "poll"
    /\ \E p \in polled[gui_state, callback] :
          /\ last' = p
          /\ IF p.emitted > 0
             THEN looper' = "callback" /\ UNCHANGED gui_state
             ELSE looper' = "pop" /\ gui_state' = p.state
    /\ UNCHANGED <<status, action_buffer, action, app, callback,
                   nenq, ran, dropped, at_quit, actions, stopping, rc>>

\* System.call_event, system.py:113: the running callback returns; the loop
\* of service_manager.py:40-41 calls the next one, or check_for_new_chat returns
call_event_return ==
    /\ looper = "callback"
    /\ last' = [last EXCEPT !.returned = @ + 1]
    /\ IF last.returned + 1 = last.emitted
       THEN looper' = "pop" /\ gui_state' = last.state
       ELSE UNCHANGED <<looper, gui_state>>
    /\ UNCHANGED <<status, action_buffer, action, app, callback,
                   nenq, ran, dropped, at_quit, actions, stopping, rc>>

\* what a finished execute_action did
Stepped(before, popped, outcome, state, log) ==
    [op |-> "step", before |-> before, popped |-> popped,
     outcome |-> outcome, state |-> state, log |-> log]

\* mutant: line 55 reads the last action and leaves it in the buffer
execute_action_pop_peek ==
    /\ looper = "pop"
    /\ IF Len(action_buffer) = 0
       THEN /\ looper' = "check"
            /\ last' = Stepped(gui_state, None, "empty", gui_state, <<>>)
            /\ UNCHANGED <<action_buffer, action>>
       ELSE /\ action' = action_buffer[Len(action_buffer)]
            /\ action_buffer' = action_buffer
            /\ looper' = "run"
            /\ last' = Stepped(gui_state, action', "popped", gui_state, <<>>)
    /\ UNCHANGED <<status, gui_state, app, callback,
                   nenq, ran, dropped, at_quit, actions, stopping, rc>>

\* mutant: line 55 is pop(0), the oldest action first
execute_action_pop_fifo ==
    /\ looper = "pop"
    /\ IF Len(action_buffer) = 0
       THEN /\ looper' = "check"
            /\ last' = Stepped(gui_state, None, "empty", gui_state, <<>>)
            /\ UNCHANGED <<action_buffer, action>>
       ELSE /\ action' = action_buffer[1]
            /\ action_buffer' = SubSeq(action_buffer, 2, Len(action_buffer))
            /\ looper' = "run"
            /\ last' = Stepped(gui_state, action', "popped", gui_state, <<>>)
    /\ UNCHANGED <<status, gui_state, app, callback,
                   nenq, ran, dropped, at_quit, actions, stopping, rc>>

\* mutant: line 57 returns the main screen's state instead of current
execute_action_pop_resets ==
    /\ looper = "pop"
    /\ IF Len(action_buffer) = 0
       THEN /\ looper' = "check"
            /\ gui_state' = Main
            /\ last' = Stepped(gui_state, None, "empty", Main, <<>>)
            /\ UNCHANGED <<action_buffer, action>>
       ELSE /\ action' = action_buffer[Len(action_buffer)]
            /\ action_buffer' = SubSeq(action_buffer, 1, Len(action_buffer) - 1)
            /\ looper' = "run"
            /\ last' = Stepped(gui_state, action', "popped", gui_state, <<>>)
            /\ UNCHANGED gui_state
    /\ UNCHANGED <<status, app, callback,
                   nenq, ran, dropped, at_quit, actions, stopping, rc>>

\* execute_action, service_manager.py:54-57: list.pop() is one atomic step
execute_action_pop ==
    /\ looper = "pop"
    /\ IF Len(action_buffer) = 0
       THEN /\ looper' = "check"
            /\ last' = Stepped(gui_state, None, "empty", gui_state, <<>>)
            /\ UNCHANGED <<action_buffer, action>>
       ELSE /\ action' = action_buffer[Len(action_buffer)]
            /\ action_buffer' = SubSeq(action_buffer, 1, Len(action_buffer) - 1)
            /\ looper' = "run"
            /\ last' = Stepped(gui_state, action', "popped", gui_state, <<>>)
    /\ UNCHANGED <<status, gui_state, app, callback,
                   nenq, ran, dropped, at_quit, actions, stopping, rc>>

\* mutant: lines 61-67 are missing, the handler runs whatever the payload
execute_action_run_unchecked ==
    /\ looper = "run"
    /\ IF action.name \notin DOMAIN actions
       THEN /\ looper' = "fatal"
            /\ last' = Stepped(gui_state, action, "fatal", gui_state, <<>>)
            /\ UNCHANGED <<gui_state, ran, dropped, action>>
       ELSE /\ looper' = "check"
            /\ ran' = Append(ran, action)
            /\ \E s \in GUIStates :
                  /\ gui_state' = s
                  /\ last' = Stepped(gui_state, action, "ran", s, <<>>)
            /\ action' = None
            /\ UNCHANGED dropped
    /\ UNCHANGED <<status, action_buffer, app, callback,
                   nenq, at_quit, actions, stopping, rc>>

\* mutant: the lookup of line 59 sits in the try of lines 61-67 and a
\* missing name is logged like a payload of the wrong type
execute_action_run_swallows ==
    /\ looper = "run"
    /\ IF action.name \notin DOMAIN actions
       THEN /\ looper' = "check"
            /\ last' = Stepped(gui_state, action, "dropped", gui_state, <<"warning">>)
            /\ action' = None
            /\ UNCHANGED <<gui_state, ran, dropped>>
       ELSE IF ~check_type(action.data, actions[action.name].data_type)
       THEN /\ looper' = "check"
            /\ dropped' = Append(dropped, action)
            /\ last' = Stepped(gui_state, action, "dropped", gui_state, <<"warning">>)
            /\ action' = None
            /\ UNCHANGED <<gui_state, ran>>
       ELSE /\ looper' = "check"
            /\ ran' = Append(ran, action)
            /\ \E s \in GUIStates :
                  /\ gui_state' = s
                  /\ last' = Stepped(gui_state, action, "ran", s, <<>>)
            /\ action' = None
            /\ UNCHANGED dropped
    /\ UNCHANGED <<status, action_buffer, app, callback,
                   nenq, at_quit, actions, stopping, rc>>

\* execute_action, service_manager.py:59-70; meta.run may return any state
execute_action_run ==
    /\ looper = "run"
    /\ IF action.name \notin DOMAIN actions
       THEN /\ looper' = "fatal"
            /\ last' = Stepped(gui_state, action, "fatal", gui_state, <<>>)
            /\ UNCHANGED <<gui_state, ran, dropped, action>>
       ELSE IF ~check_type(action.data, actions[action.name].data_type)
       THEN /\ looper' = "check"
            /\ dropped' = Append(dropped, action)
            /\ last' = Stepped(gui_state, action, "dropped", gui_state, <<"warning">>)
            /\ action' = None
            /\ UNCHANGED <<gui_state, ran>>
       ELSE /\ looper' = "check"
            /\ ran' = Append(ran, action)
            /\ \E s \in GUIStates :
                  /\ gui_state' = s
                  /\ last' = Stepped(gui_state, action, "ran", s, <<>>)
            /\ action' = None
            /\ UNCHANGED dropped
    /\ UNCHANGED <<status, action_buffer, app, callback,
                   nenq, at_quit, actions, stopping, rc>>

Next ==
    \/ start
    \/ enqueue
    \/ quit
    \/ wait_for_finish_call
    \/ wait_for_finish_return
    \/ looper_init
    \/ looper_check
    \/ looper_poll
    \/ call_event_return
    \/ execute_action_pop
    \/ execute_action_run

Spec == Init /\ [][Next]_vars

\* the registries that supbot.action.actions may be when names are left out
registries ==
    {[n \in names |-> all_actions[n]] : names \in SUBSET ActionName}

\* System.__init__, with any registry
InitAnyRegistry ==
    /\ status = 1
    /\ action_buffer = <<>>
    /\ looper = "unstarted"
    /\ gui_state = Main
    /\ action = None
    /\ app = "run"
    /\ callback \in BOOLEAN
    /\ nenq = 0
    /\ ran = <<>>
    /\ dropped = <<>>
    /\ at_quit = {}
    /\ last = no_op
    /\ actions \in registries
    /\ stopping = FALSE
    /\ rc = rc_idle

SpecAnyRegistry == InitAnyRegistry /\ [][Next]_vars

---------------------------------------------------------------------------
(* C2 *)

\* the action execute_action holds between its pop and its return
in_flight == IF action = None THEN <<>> ELSE <<action>>

\* every action that left the buffer or is still in it, one entry each
accounted == action_buffer \o in_flight \o ran \o dropped

\* C2: under every interleaving of enqueue with the steps of execute_action
\* no action is lost or duplicated: the actions enqueued so far are, each
\* exactly once, in the buffer, in the hands of the running execute_action,
\* handed to a handler, or dropped for a payload that fails check_type
C2_NoActionLostOrDuplicated ==
    /\ nenq = Len(action_buffer) + Len(in_flight) + Len(ran) + Len(dropped)
    /\ \A i, j \in 1..Len(accounted) :
          accounted[i].id = accounted[j].id => i = j
    /\ ids(accounted) = 1..nenq
    /\ action # None => looper = "run"
    /\ \A i \in 1..Len(dropped) :
          /\ dropped[i].name \in DOMAIN actions
          /\ ~check_type(dropped[i].data, actions[dropped[i].name].data_type)

\* an action was enqueued while execute_action held a popped one, after
\* another had been dropped
C2_Witness ==
    /\ looper = "run"
    /\ action # None
    /\ Len(action_buffer) > 0
    /\ action_buffer[Len(action_buffer)].id > action.id
    /\ Len(dropped) > 0

---------------------------------------------------------------------------
(* C3 *)

\* C3: when the looper has left its loop, every action that was in the
\* buffer when a quit() set the status to 0 has been popped by
\* execute_action (and so handed to its handler or dropped by check_type)
C3_PendingAtQuitPopped ==
    looper = "exited" => at_quit \subseteq (ids(ran) \cup ids(dropped))

C3_Witness ==
    /\ looper = "exited"
    /\ Cardinality(at_quit) >= 2
    /\ Len(ran) >= 1

---------------------------------------------------------------------------
(* C4 *)

\* C4: at its loop condition the looper goes on while the status is not 0
\* or the buffer is not empty; when it leaves the loop the status is 0 and
\* the buffer is empty, and wait_for_finish returns only after that, with
\* the status still 0
C4_ExitOnlyStoppedAndDrained ==
    /\ [][(looper = "check" /\ looper' # "check") =>
            /\ (status # 0 \/ action_buffer # <<>>) => looper' = "poll"
            /\ looper' # "poll" =>
                  /\ looper' = "exited"
                  /\ status = 0 /\ action_buffer = <<>>
                  /\ status' = 0 /\ action_buffer' = <<>>]_vars
    /\ [][looper' = "exited" => looper \in {"check", "exited"}]_vars
    /\ [](app = "finished" => looper = "exited" /\ status = 0)

C4_Witness ==
    /\ looper = "exited"
    /\ app = "finished"
    /\ status = 0
    /\ action_buffer = <<>>
    /\ Len(ran) > 0

---------------------------------------------------------------------------
(* C8 *)

\* C8: execute_action on a non-empty buffer pops the action enqueued last
\* among those in the buffer, and the others stay, in the order they had
C8_PopsLatestEnqueued ==
    [][(looper = "pop" /\ looper' # "pop" /\ Len(action_buffer) > 0) =>
          /\ looper' = "run"
          /\ action' \in {action_buffer[i] : i \in 1..Len(action_buffer)}
          /\ \A i \in 1..Len(action_buffer) : action_buffer[i].id <= action'.id
          /\ Len(action_buffer') = Len(action_buffer) - 1
          /\ \A i \in 1..Len(action_buffer') : action_buffer'[i] = action_buffer[i]
      ]_vars

\* the third of three buffered actions has been popped, the first two stay
C8_Witness ==
    /\ looper = "run"
    /\ action # None
    /\ action.id = 3
    /\ Len(action_buffer) = 2
    /\ action_buffer[1].id = 1
    /\ action_buffer[2].id = 2

---------------------------------------------------------------------------
(* C9 *)

\* C9: execute_action on an empty buffer returns normally with the state it
\* was given, leaves the buffer empty and runs no handler (the only place
\* where execute_action reaches the driver)
C9_EmptyStepChangesNothing ==
    [][(looper = "pop" /\ looper' # "pop" /\ Len(action_buffer) = 0) =>
          /\ looper' = "check"
          /\ gui_state' = gui_state
          /\ action_buffer' = <<>>
          /\ action' = None
          /\ ran' = ran
          /\ dropped' = dropped
          /\ last' = Stepped(gui_state, None, "empty", gui_state, <<>>)
      ]_vars

C9_Witness ==
    /\ looper = "check"
    /\ last = Stepped(Chat(Bob), None, "empty", Chat(Bob), <<>>)
    /\ gui_state = Chat(Bob)
    /\ action_buffer = <<>>
    /\ Len(ran) > 0

---------------------------------------------------------------------------
(* C10 *)

\* C10: execute_action, holding a popped action whose payload fails the
\* check_type of its registered data_type, logs a warning, runs no handler
\* and returns the state it was given; the action is out of the buffer and
\* is never seen again by a later execute_action
C10_InvalidPayloadDropped ==
    /\ [][(/\ looper = "run" /\ looper' # "run"
           /\ action.name \in DOMAIN actions
           /\ ~check_type(action.data, actions[action.name].data_type)) =>
            /\ looper' = "check"
            /\ gui_state' = gui_state
            /\ ran' = ran
            /\ dropped' = Append(dropped, action)
            /\ action.id \notin ids(action_buffer')
            /\ last' = Stepped(gui_state, action, "dropped", gui_state, <<"warning">>)
         ]_vars
    /\ [](\A i \in 1..Len(dropped) :
             dropped[i].id \notin (ids(action_buffer) \cup ids(ran) \cup ids(in_flight)))

C10_Witness ==
    /\ looper = "check"
    /\ last.op = "step"
    /\ last.outcome = "dropped"
    /\ last.before = Chat(Phone11)
    /\ gui_state = Chat(Phone11)
    /\ Len(dropped) = 2
    /\ Len(ran) = 1

---------------------------------------------------------------------------
(* change_state on its own: any pair of states, any answers of the driver *)

call_change_state ==
    /\ rc.pc = "idle"
    /\ \E _from \in GUIStates, _to \in GUIStates, ans \in Answers :
          rc' = [pc |-> "called", from |-> _from, to |-> _to, ans |-> ans]
    /\ UNCHANGED <<status, action_buffer, looper, gui_state, action, app,
                   callback, nenq, ran, dropped, at_quit, last, actions, stopping>>

return_change_state ==
    /\ rc.pc = "called"
    /\ rc' = [pc |-> "returned", from |-> rc.from, to |-> rc.to, ans |-> rc.ans,
              res |-> change_state(rc.from, rc.to, rc.ans)]
    /\ UNCHANGED <<status, action_buffer, looper, gui_state, action, app,
                   callback, nenq, ran, dropped, at_quit, last, actions, stopping>>

NextReconcile ==
    \/ call_change_state
    \/ return_change_state

SpecReconcile == Init /\ [][NextReconcile]_vars

---------------------------------------------------------------------------
(* check_for_new_chat on its own: any state, any answers of the driver *)

call_check_for_new_chat ==
    /\ rc.pc = "idle"
    /\ \E current \in GUIStates, chat \in Chats \cup {None},
          messages \in MessageLists, ans \in Answers :
          rc' = [pc |-> "polling", current |-> current, chat |-> chat,
                 messages |-> IF chat = None THEN <<>> ELSE messages,
                 ans |-> ans]
    /\ UNCHANGED <<status, action_buffer, looper, gui_state, action, app,
                   callback, nenq, ran, dropped, at_quit, last, actions, stopping>>

return_check_for_new_chat ==
    /\ rc.pc = "polling"
    /\ rc' = [pc |-> "polled", current |-> rc.current, chat |-> rc.chat,
              messages |-> rc.messages, ans |-> rc.ans,
              res |-> check_for_new_chat(rc.current, rc.chat, rc.messages,
                                         rc.ans, callback)]
    /\ UNCHANGED <<status, action_buffer, looper, gui_state, action, app,
                   callback, nenq, ran, dropped, at_quit, last, actions, stopping>>

NextPoll ==
    \/ call_check_for_new_chat
    \/ return_check_for_new_chat

SpecPoll == Init /\ [][NextPoll]_vars

\* the call went from one chat to a different chat
ChatToOtherChat ==
    /\ rc.from.state = CHAT
    /\ rc.to.state = CHAT
    /\ rc.from.info # rc.to.info

---------------------------------------------------------------------------
(* C1 *)

\* C1 as stated: change_state returns either (0, _to) or (1, _from), also
\* from one chat to a different chat
C1_SuccessToFailureFrom ==
    rc.pc = "returned" =>
        \/ rc.res.code = 0 /\ rc.res.state = rc.to
        \/ rc.res.code = 1 /\ rc.res.state = rc.from

\* C1 amended: change_state returns either (0, _to) or, on failure, (1, _from);
\* except that a failed move from one chat to a different chat returns
\* (1, Main), the screen its press_back left it on
C1_SuccessToFailureFromOrMain ==
    rc.pc = "returned" =>
        \/ rc.res.code = 0 /\ rc.res.state = rc.to
        \/ /\ rc.res.code = 1
           /\ rc.res.state = IF ChatToOtherChat THEN Main ELSE rc.from

C1_Witness ==
    /\ rc.pc = "returned"
    /\ ChatToOtherChat
    /\ rc.res.code = 1
    /\ rc.res.state = Main

---------------------------------------------------------------------------
(* C5 *)

\* C5: from Chat(x) to Chat(y), x # y, change_state presses back exactly once
\* and then makes the driver calls, and returns the code and state, of
\* change_state(Main, Chat(y)) under the same answers of the driver
C5_BackThenAsFromMain ==
    (rc.pc = "returned" /\ ChatToOtherChat) =>
        LET m == change_state(Main, rc.to, rc.ans)
        IN  /\ rc.res.calls = <<press_back>> \o m.calls
            /\ rc.res.code = m.code
            /\ rc.res.state = m.state
            /\ rc.res.log = m.log

C5_Witness ==
    /\ rc.pc = "returned"
    /\ ChatToOtherChat
    /\ rc.res.code = 0
    /\ Len(rc.res.calls) = 11

---------------------------------------------------------------------------
(* C6 *)

\* C6: change_state(Chat(x), Chat(x)) returns (0, Chat(x)) and calls the
\* driver not once
C6_SameChatNoop ==
    (rc.pc = "returned" /\ rc.from.state = CHAT /\ rc.to = rc.from) =>
        /\ rc.res.code = 0
        /\ rc.res.state = rc.from
        /\ rc.res.calls = <<>>

C6_Witness ==
    /\ rc.pc = "returned"
    /\ rc.from = Chat(Phone11)
    /\ rc.to = Chat(Phone11)
    /\ rc.res.calls = <<>>

---------------------------------------------------------------------------
(* C7 *)

\* C7: change_state(Chat(x), Main) returns (0, Main) whatever the driver
\* answers, having pressed back
C7_ChatToMain ==
    (rc.pc = "returned" /\ rc.from.state = CHAT /\ rc.to.state = MAIN) =>
        /\ rc.res.code = 0
        /\ rc.res.state = Main
        /\ rc.res.calls = <<press_back>>

C7_Witness ==
    /\ rc.pc = "returned"
    /\ rc.from = Chat(Bob)
    /\ rc.to = Main
    /\ rc.res.state = Main
    /\ rc.res.calls = <<press_back>>

---------------------------------------------------------------------------
(* C11 *)

\* C11: execute_action, holding a popped action whose name is not in the
\* registry, ends in the error of the lookup (line 59, outside both try
\* blocks): it does not return a state, runs no handler and logs no drop
C11_UnknownKindFatal ==
    /\ [][(/\ looper = "run" /\ looper' # "run"
           /\ action.name \notin DOMAIN actions) =>
            /\ looper' = "fatal"
            /\ gui_state' = gui_state
            /\ ran' = ran
            /\ dropped' = dropped
            /\ last' = Stepped(gui_state, action, "fatal", gui_state, <<>>)
         ]_vars
    /\ [](looper = "fatal" =>
            /\ last.op = "step"
            /\ last.outcome = "fatal"
            /\ last.popped.name \notin DOMAIN actions
            /\ last.popped.id \notin (ids(ran) \cup ids(dropped)))
    /\ [](\A i \in 1..Len(ran) : ran[i].name \in DOMAIN actions)

C11_Witness ==
    /\ looper = "fatal"
    /\ last.outcome = "fatal"
    /\ last.before = Chat(Bob)
    /\ Len(action_buffer) > 0

---------------------------------------------------------------------------
(* C12 *)

\* C12: from every believed state, check_for_new_chat with no new chat
\* returns Main and makes no call_event call, so invokes no callback
C12_NoNewChatMainNoEvents ==
    (rc.pc = "polled" /\ rc.chat = None) =>
        /\ rc.res.state = Main
        /\ rc.res.emits = <<>>
        /\ rc.res.events = <<>>

C12_Witness ==
    /\ rc.pc = "polled"
    /\ rc.chat = None
    /\ rc.current = Chat(Bob)
    /\ rc.res.state = Main
    /\ rc.res.calls = <<press_back, get_new_chat>>

---------------------------------------------------------------------------
(* C13 *)

\* C13: check_for_new_chat with a new chat c holding the messages m1..mn
\* goes for Chat(c) with change_state (returning Chat(c) when that succeeds,
\* as it does when the chat can be clicked) and then makes exactly n
\* call_event calls, the i-th with (c, mi); a registered callback is invoked
\* with exactly these, in this order
C13_OneEventPerMessageInOrder ==
    (rc.pc = "polled" /\ rc.chat # None) =>
        /\ Len(rc.res.emits) = Len(rc.messages)
        /\ \A i \in 1..Len(rc.messages) :
              rc.res.emits[i] = [event |-> "MESSAGE_RECEIVED",
                                 params |-> <<rc.chat, rc.messages[i]>>]
        /\ callback => rc.res.events = rc.res.emits
        /\ rc.res.code = 0 <=> rc.res.state = Chat(rc.chat)
        /\ rc.ans["click_on_chat_93"] => rc.res.state = Chat(rc.chat)
        /\ rc.res.calls[Len(rc.res.calls)] = get_new_messages

C13_Witness ==
    /\ rc.pc = "polled"
    /\ callback
    /\ rc.chat = Bob
    /\ rc.messages = <<"m2", "m1">>
    /\ rc.res.state = Chat(Bob)
    /\ Len(rc.res.events) = 2
    /\ rc.res.events[1].params = <<Bob, "m2">>

---------------------------------------------------------------------------
(* C14 *)

\* C14: call_event invokes the registered callback once per call and none
\* when there is no callback; while a callback runs the looper does nothing
\* else, and execute_action starts only when every callback that this
\* iteration's check_for_new_chat invoked has returned
C14_CallbacksReturnBeforeStep ==
    /\ [](last.op = "poll" =>
            /\ last.emitted = IF callback THEN last.emits ELSE 0
            /\ last.returned <= last.emitted)
    /\ [](looper = "callback" =>
            /\ last.op = "poll"
            /\ last.returned < last.emitted
            /\ action = None)
    /\ [](looper = "pop" =>
            /\ last.op = "poll"
            /\ last.returned = last.emitted)
    /\ [][(last'.op = "step" /\ last.op # "step") =>
            /\ looper = "pop"
            /\ last.returned = last.emitted]_vars

C14_Witness ==
    /\ looper = "pop"
    /\ callback
    /\ last.op = "poll"
    /\ last.emitted = 2
    /\ last.returned = 2
    /\ Len(action_buffer) > 0

---------------------------------------------------------------------------
(* C15 *)

\* C15 as stated: in change_state(Main, Chat(x)), when the click on x fails
\* and the search does not end in a click on x that succeeds (search_chat
\* answers False, or it answers True and the click fails), exactly two
\* press_back follow the search, before the fallback or the return
C15_TwoBacksWheneverSearchFails ==
    (/\ rc.pc = "returned"
     /\ rc.from = Main
     /\ rc.to.state = CHAT
     /\ ~rc.ans["click_on_chat_93"]
     /\ ~(rc.ans["search_chat_96"] /\ rc.ans["click_on_chat_97"])) =>
        LET k == IF rc.ans["search_chat_96"] THEN 3 ELSE 2
            calls == rc.res.calls
        IN  /\ Len(calls) >= k + 2
            /\ calls[k + 1] = press_back
            /\ calls[k + 2] = press_back
            /\ Len(calls) > k + 2 => calls[k + 3] # press_back

---------------------------------------------------------------------------
(* C16 *)

\* the call went from Main towards a chat and the click on it failed
MainToChatNoClick ==
    /\ rc.pc = "returned"
    /\ rc.from = Main
    /\ rc.to.state = CHAT
    /\ ~rc.ans["click_on_chat_93"]

\* the search found the chat and the click on it failed: line 100 is reached
FallbackEntered ==
    /\ MainToChatNoClick
    /\ rc.ans["search_chat_96"]
    /\ ~rc.ans["click_on_chat_97"]

\* the calls made hold the driver call c
Called(c) == \E i \in 1..Len(rc.res.calls) : rc.res.calls[i] = c

\* C16: once change_state(Main, Chat(x)) is in the fallback with an x that
\* holds eleven digits in a row, it returns (0, Chat(x)) if and only if
\* `!temp` is found and clicked, the wa.me text is sent, the link is clicked
\* and click_ok answers False; in every other case it returns (1, Main); for
\* an x without such digits `!temp` is never searched and the call fails
C16_DeepLinkSucceedsIff ==
    /\ (FallbackEntered /\ re_search_phone(rc.to.info)) =>
          LET all_ok == /\ rc.ans["search_chat_106"]
                        /\ rc.ans["click_on_chat_106"]
                        /\ rc.ans["type_and_send_107"]
                        /\ rc.ans["click_on_last_chat_link_107"]
                        /\ ~rc.ans["click_ok_108"]
          IN  /\ Called(search_chat(Temp))
              /\ all_ok => rc.res.code = 0 /\ rc.res.state = rc.to
              /\ ~all_ok => rc.res.code = 1 /\ rc.res.state = Main
              /\ rc.res.code = 0 =>
                    /\ Called(type_and_send(wa_me(rc.to.info)))
                    /\ rc.res.calls[Len(rc.res.calls)] = click_ok
    /\ (FallbackEntered /\ ~re_search_phone(rc.to.info)) =>
          /\ rc.res.code = 1
          /\ rc.res.state = Main
    /\ (rc.pc = "returned" /\ rc.to.state = CHAT
        /\ ~re_search_phone(rc.to.info)) =>
          /\ ~Called(search_chat(Temp))
          /\ ~Called(click_on_chat(Temp))
          /\ ~Called(click_ok)

C16_Witness ==
    /\ FallbackEntered
    /\ rc.to = Chat(Phone11)
    /\ rc.res.code = 0
    /\ rc.res.state = Chat(Phone11)
    /\ Len(rc.res.calls) = 10

---------------------------------------------------------------------------
(* C17 *)

\* C17 as stated, its safety part: once quit() was called on a started
\* controller, the status stays 0 (Stopped) whatever the looper does next
C17_QuitStaysStopped ==
    stopping => status = 0

---------------------------------------------------------------------------
(* C18 *)

\* C18 as stated: check_for_new_chat calls call_event for a new chat c only
\* when change_state into Chat(c) succeeded: with at least one event the
\* state returned is Chat(c), and when change_state fails no messages are
\* fetched and no event is emitted
C18_EventsOnlyAfterReconcile ==
    rc.pc = "polled" =>
        /\ Len(rc.res.emits) > 0 => rc.res.state = Chat(rc.chat)
        /\ (rc.chat # None /\ rc.res.code = 1) =>
              /\ \A i \in 1..Len(rc.res.calls) :
                    rc.res.calls[i] # get_new_messages
              /\ rc.res.emits = <<>>

---------------------------------------------------------------------------
(* C19 *)

\* the looper (or any caller) is scheduled: a call that can return does
SpecReconcileFair == SpecReconcile /\ WF_vars(return_change_state)

\* C19: every call of change_state returns; it calls change_state at most
\* once (only from Chat(x) to Chat(y), x # y; that call starts from Main and
\* calls change_state no more) and makes at most 11 driver calls
C19_TerminatesBounded ==
    /\ (rc.pc = "called") ~> (rc.pc = "returned")
    /\ [](rc.pc = "returned" =>
            /\ Len(rc.res.calls) <= 11
            /\ rc.res.rec <= 1
            /\ rc.res.rec = 1 <=> ChatToOtherChat
            /\ change_state(Main, rc.to, rc.ans).rec = 0
            /\ ChatToOtherChat =>
                  Len(rc.res.calls) =
                      1 + Len(change_state(Main, rc.to, rc.ans).calls))

C19_Witness ==
    /\ rc.pc = "returned"
    /\ rc.res.rec = 1
    /\ rc.res.code = 1
    /\ Len(rc.res.calls) = 11

---------------------------------------------------------------------------
(* C20 *)

\* C20 as stated: on every path of change_state(Main, Chat(x)) that returns
\* (1, Main) after click_on_chat("!temp") succeeded, a press_back is made
\* after that click, also when click_ok dismissed the dialog
C20_BackAfterTempOnFailure ==
    (/\ FallbackEntered
     /\ rc.res.code = 1
     /\ Called(click_on_chat(Temp))
     /\ rc.ans["click_on_chat_106"]) =>
        \E i, j \in 1..Len(rc.res.calls) :
            /\ i < j
            /\ rc.res.calls[i] = click_on_chat(Temp)
            /\ rc.res.calls[j] = press_back

============================================================================
